---- MODULE Spec2Model ----
(***************************************************************************)
(* A model of the fast_trie crate: the TrieNode tree (src/node.rs) and the *)
(* Trie container (src/trie.rs) with its cached count.                     *)
(*                                                                         *)
(* A TrieNode is a record [children, end_of_value]; children is a function *)
(* from the symbols that have a child (the keys of the HashMap) to the     *)
(* owned child nodes.  The container's state is root and count.  The       *)
(* remaining variables record the last call, its argument, its return      *)
(* value and the state it started from, and the reference set of members.  *)
(* An enumerator (src/iter.rs, src/string/iter.rs) borrows the trie; its    *)
(* state is stack and buffer.  wire and decoded hold a serialized container *)
(* and the result of decoding it (the serde impls of trie.rs and node.rs).  *)
(***************************************************************************)
EXTENDS Integers, Sequences, FiniteSets, TLC

\* Longest symbol sequence passed to insert / remove.
MaxLen == 2

\* Largest value the cached count is driven to.
MaxCount == 3

\* The symbol type T, instantiated with a two-letter alphabet.
Symbols == {"a", "b"}

\* All symbol sequences of length 0..MaxLen: the arguments of the calls.
Values == UNION {[1..n -> Symbols] : n \in 0..MaxLen}

\* Largest number of sequences stored in a trie that is enumerated or
\* serialized.
MaxStored == 2

\* The chars of the strings stored in such a trie: the two letters and a
\* scalar value whose UTF-8 encoding is two bytes long.
Chars == Symbols \cup {"é"}

\* All strings of 0..MaxLen chars.
Strings == UNION {[1..n -> Chars] : n \in 0..MaxLen}

VARIABLES
    root,       \* Trie::root, the tree of TrieNodes
    count,      \* Trie::count
    op,         \* name of the last call: "new", "insert", "remove", "clear"
    arg,        \* argument of the last call (<<>> for new and clear)
    ret,        \* value returned by the last call (FALSE for new and clear)
    preRoot,    \* root before the last call
    preCount,   \* count before the last call
    prevRet,    \* <<r>> when the call before the last one was the same call
                \* (same name and argument) and returned r, else <<>>
    members,    \* reference set: inserted and not removed or cleared since
    iter_kind,  \* the enumerator borrowed from the trie: "none", "string"
                \* (StringTrieIter) or "generic" (TrieIter)
    stack,      \* the enumerator's stack, top at the end
    buffer,     \* the enumerator's prefix buffer
    spare,      \* elements of the generic buffer's allocation past its length
    yielded,    \* the items returned by next() so far, in order
    last,       \* outcome of the last pass of next()'s loop: "idle", "loop",
                \* "yield" (Some returned), "end" (None returned), "panic"
    pops,       \* number of stack.pop() calls that returned an entry
    paths,      \* for each stack entry, the symbols on the way from the root
                \* to its node (history variable)
    parked,     \* a second enumerator over the same trie, whose next() is
                \* not the one being called now
    mixed,      \* TRUE once the caller turned to the other enumerator while
                \* the running one was in the middle of its enumeration
    serde_pc,   \* "idle", "encoded" (the encoding of the trie is at hand),
                \* "roundtrip" (it was decoded), "decoded" (an input was)
    wire,       \* the structured object handed to the decoder
    decoded     \* the result of the last decode

trieVars == <<root, count, op, arg, ret, preRoot, preCount, prevRet, members>>

iterVars == <<iter_kind, stack, buffer, spare, yielded, last, pops, paths,
              parked, mixed>>

serdeVars == <<serde_pc, wire, decoded>>

vars == <<trieVars, iterVars, serdeVars>>

----------------------------------------------------------------------------
(* TrieNode, src/node.rs *)

\* HashMap::with_hasher(Default::default()): a map without keys.
NoChildren == [s \in {} |-> FALSE]

\* TrieNode::empty
empty == [children |-> NoChildren, end_of_value |-> FALSE]

\* TrieNode::is_empty: the node has no child nodes.
is_empty(node) == DOMAIN node.children = {}

\* TrieNode::clear
clear(node) == [children |-> NoChildren, end_of_value |-> FALSE]

\* HashMap insert of one entry (overwrites an existing key).
MapPut(map, key, child) ==
    [s \in (DOMAIN map) \cup {key} |-> IF s = key THEN child ELSE map[s]]

\* HashMap::remove of one key.
MapRemove(map, key) == [s \in (DOMAIN map) \ {key} |-> map[s]]

\* TrieNode::get_or_create: the node with a child for value, a new empty
\* child being inserted when there was none.
get_or_create(node, value) ==
    IF value \in DOMAIN node.children
    THEN node
    ELSE [node EXCEPT !.children = MapPut(node.children, value, empty)]

\* can_remove with the test for children left out.
can_remove_flag_only(node) == ~node.end_of_value

\* TrieNode::can_remove
can_remove(node) == ~node.end_of_value /\ is_empty(node)

\* A closure that never detaches the child.
remove_fn_keep(node, element) == node

\* The closure passed by remove_branch to remove_internal: detach the child
\* for element when it has become removable.
remove_fn(node, element) ==
    IF can_remove(node.children[element])
    THEN [node EXCEPT !.children = MapRemove(node.children, element)]
    ELSE node

\* remove_internal reporting success at the end of the iterator whatever the
\* flag of the node reached.
RECURSIVE remove_internal_any_end(_, _)
remove_internal_any_end(self, iter) ==
    IF iter # <<>>
    THEN LET element == Head(iter) IN
         IF element \in DOMAIN self.children
         THEN LET r == remove_internal_any_end(self.children[element], Tail(iter))
                  after == [self EXCEPT !.children[element] = r.node]
              IN  [node |-> remove_fn(after, element), removed |-> r.removed]
         ELSE [node |-> self, removed |-> FALSE]
    ELSE [node |-> [self EXCEPT !.end_of_value = FALSE], removed |-> TRUE]

\* remove_internal calling remove_fn before the recursive call instead of
\* after it.
RECURSIVE remove_internal_preorder(_, _)
remove_internal_preorder(self, iter) ==
    IF iter # <<>>
    THEN LET element == Head(iter) IN
         IF element \in DOMAIN self.children
         THEN LET r == remove_internal_preorder(self.children[element], Tail(iter))
                  before == remove_fn(self, element)
              IN  [node |-> IF element \in DOMAIN before.children
                            THEN [before EXCEPT !.children[element] = r.node]
                            ELSE before,
                   removed |-> r.removed]
         ELSE [node |-> self, removed |-> FALSE]
    ELSE LET is_end_of_value == self.end_of_value IN
         [node |-> IF is_end_of_value
                   THEN [self EXCEPT !.end_of_value = FALSE]
                   ELSE self,
          removed |-> is_end_of_value]

\* TrieNode::remove_internal: the node after the call and the value returned.
RECURSIVE remove_internal(_, _)
remove_internal(self, iter) ==
    IF iter # <<>>
    THEN LET element == Head(iter) IN
         IF element \in DOMAIN self.children
         THEN LET r == remove_internal(self.children[element], Tail(iter))
                  after == [self EXCEPT !.children[element] = r.node]
              IN  [node |-> remove_fn(after, element), removed |-> r.removed]
         ELSE [node |-> self, removed |-> FALSE]
    ELSE LET is_end_of_value == self.end_of_value IN
         [node |-> IF is_end_of_value
                   THEN [self EXCEPT !.end_of_value = FALSE]
                   ELSE self,
          removed |-> is_end_of_value]

\* remove_branch refusing the empty iterator, as the doc comment of
\* Trie::remove words it.
remove_branch_reject_empty(self, iter) ==
    IF iter = <<>>
    THEN [node |-> self, removed |-> FALSE]
    ELSE remove_internal(self, iter)

\* TrieNode::remove_branch
remove_branch(self, iter) == remove_internal(self, iter)

----------------------------------------------------------------------------
(* Trie, src/trie.rs *)

\* insert_walk with the negation of the flag dropped.
RECURSIVE insert_walk_not_negated(_, _)
insert_walk_not_negated(current, iter) ==
    IF iter = <<>>
    THEN [node |-> [current EXCEPT !.end_of_value = TRUE],
          is_new |-> current.end_of_value]
    ELSE LET char == Head(iter)
             created == get_or_create(current, char)
             r == insert_walk_not_negated(created.children[char], Tail(iter))
         IN  [node |-> [created EXCEPT !.children[char] = r.node],
              is_new |-> r.is_new]

\* insert_walk reporting every value as new.
RECURSIVE insert_walk_always_new(_, _)
insert_walk_always_new(current, iter) ==
    IF iter = <<>>
    THEN [node |-> [current EXCEPT !.end_of_value = TRUE],
          is_new |-> TRUE]
    ELSE LET char == Head(iter)
             created == get_or_create(current, char)
             r == insert_walk_always_new(created.children[char], Tail(iter))
         IN  [node |-> [created EXCEPT !.children[char] = r.node],
              is_new |-> r.is_new]

\* The walk of Trie::insert: get_or_create for every symbol, then the node
\* reached is marked as the end of a value.  The result is the tree after the
\* call and is_new, the negation of the flag found on the node reached.
RECURSIVE insert_walk(_, _)
insert_walk(current, iter) ==
    IF iter = <<>>
    THEN [node |-> [current EXCEPT !.end_of_value = TRUE],
          is_new |-> ~current.end_of_value]
    ELSE LET char == Head(iter)
             created == get_or_create(current, char)
             r == insert_walk(created.children[char], Tail(iter))
         IN  [node |-> [created EXCEPT !.children[char] = r.node],
              is_new |-> r.is_new]

\* contains answering true for every path that exists in the tree.
RECURSIVE contains_walk_any_node(_, _)
contains_walk_any_node(current, iter) ==
    IF iter = <<>>
    THEN TRUE
    ELSE IF Head(iter) \in DOMAIN current.children
         THEN contains_walk_any_node(current.children[Head(iter)], Tail(iter))
         ELSE FALSE

\* Trie::contains
RECURSIVE contains_walk(_, _)
contains_walk(current, iter) ==
    IF iter = <<>>
    THEN current.end_of_value
    ELSE IF Head(iter) \in DOMAIN current.children
         THEN contains_walk(current.children[Head(iter)], Tail(iter))
         ELSE FALSE

contains(iter) == contains_walk(root, iter)

\* Trie::len
len == count

\* Trie::is_empty
Trie_is_empty == is_empty(root)

\* The call just made was also the call before it.
SameCall(name, value) ==
    IF op = name /\ arg = value THEN <<ret>> ELSE <<>>

\* The state of an enumerator that has not been created.
NoIter ==
    [iter_kind |-> "none", stack |-> <<>>, buffer |-> <<>>, spare |-> <<>>,
     yielded |-> <<>>, last |-> "idle", pops |-> 0, paths |-> <<>>]

\* No enumerator has been created.
IterIdle ==
    /\ iter_kind = "none"
    /\ stack = <<>>
    /\ buffer = <<>>
    /\ spare = <<>>
    /\ yielded = <<>>
    /\ last = "idle"
    /\ pops = 0
    /\ paths = <<>>
    /\ parked = NoIter
    /\ mixed = FALSE

\* Nothing has been serialized or deserialized.
SerdeIdle ==
    /\ serde_pc = "idle"
    /\ wire = <<>>
    /\ decoded = <<>>

\* Trie::new
Init ==
    /\ root = empty
    /\ count = 0
    /\ op = "new"
    /\ arg = <<>>
    /\ ret = FALSE
    /\ preRoot = empty
    /\ preCount = 0
    /\ prevRet = <<>>
    /\ members = {}
    /\ IterIdle
    /\ SerdeIdle

\* Trie::insert
Insert(value) ==
    LET r == insert_walk(root, value) IN
    /\ r.is_new => count < MaxCount
    /\ root' = r.node
    /\ count' = IF r.is_new THEN count + 1 ELSE count
    /\ ret' = r.is_new
    /\ op' = "insert"
    /\ arg' = value
    /\ preRoot' = root
    /\ preCount' = count
    /\ prevRet' = SameCall("insert", value)
    /\ members' = members \cup {value}
    /\ UNCHANGED <<iterVars, serdeVars>>

\* Trie::remove
Remove(value) ==
    LET r == remove_branch(root, value) IN
    /\ root' = r.node
    /\ count' = IF r.removed THEN count - 1 ELSE count
    /\ ret' = r.removed
    /\ op' = "remove"
    /\ arg' = value
    /\ preRoot' = root
    /\ preCount' = count
    /\ prevRet' = SameCall("remove", value)
    /\ members' = members \ {value}
    /\ UNCHANGED <<iterVars, serdeVars>>

\* Trie::clear
Clear ==
    /\ root' = clear(root)
    /\ count' = count
    /\ ret' = FALSE
    /\ op' = "clear"
    /\ arg' = <<>>
    /\ preRoot' = root
    /\ preCount' = count
    /\ prevRet' = <<>>
    /\ members' = {}
    /\ UNCHANGED <<iterVars, serdeVars>>

InsertAny == \E value \in Values : Insert(value)

RemoveAny == \E value \in Values : Remove(value)

Next == InsertAny \/ RemoveAny \/ Clear

Spec == Init /\ [][Next]_vars

\* The container driven by insert and remove only.
NextIR == InsertAny \/ RemoveAny

SpecIR == Init /\ [][NextIR]_vars

----------------------------------------------------------------------------
(* Tries an enumerator or the serializer is applied to *)

\* The trie after inserting the sequences of the set values into a new trie.
RECURSIVE BuildTrie(_)
BuildTrie(values) ==
    IF values = {}
    THEN empty
    ELSE LET value == CHOOSE v \in values : TRUE
         IN  insert_walk(BuildTrie(values \ {value}), value).node

\* The subsets of set with at most k elements.
RECURSIVE SubsetsUpTo(_, _)
SubsetsUpTo(set, k) ==
    IF k = 0
    THEN {{}}
    ELSE LET smaller == SubsetsUpTo(set, k - 1)
         IN  smaller \cup {subset \cup {x} : subset \in smaller, x \in set}

\* A container holding at most MaxStored of the sequences of Strings, as
\* built by Trie::new and insert calls.
InitTrie ==
    \E values \in SubsetsUpTo(Strings, MaxStored) :
        /\ root = BuildTrie(values)
        /\ count = Cardinality(values)
        /\ members = values
        /\ op = "new"
        /\ arg = <<>>
        /\ ret = FALSE
        /\ preRoot = empty
        /\ preCount = 0
        /\ prevRet = <<>>

----------------------------------------------------------------------------
(* Enumerators, src/string/iter.rs and src/iter.rs *)

\* The orders in which a HashMap with the given keys can be iterated.
Orders(keys) ==
    {order \in [1..Cardinality(keys) -> keys] :
        \A i, j \in 1..Cardinality(keys) : i # j => order[i] # order[j]}

\* char::len_utf8 for the symbols used: the letters are one byte long, any
\* other symbol stands for a scalar value encoded in two bytes.
len_utf8(char) == IF char \in Symbols THEN 1 ELSE 2

\* String::len: the length in bytes of a string given as its chars.
RECURSIVE String_len(_)
String_len(string) ==
    IF string = <<>>
    THEN 0
    ELSE len_utf8(Head(string)) + String_len(Tail(string))

\* str::is_char_boundary
is_char_boundary(string, index) ==
    \E k \in 0..Len(string) : String_len(SubSeq(string, 1, k)) = index

\* String::truncate leaving the string as it is.
String_truncate_keep(string, new_len) == [panic |-> FALSE, value |-> string]

\* String::truncate(new_len), new_len in bytes: no effect when new_len is
\* larger than the length, a panic when new_len is not on a char boundary.
String_truncate(string, new_len) ==
    IF new_len > String_len(string)
    THEN [panic |-> FALSE, value |-> string]
    ELSE IF is_char_boundary(string, new_len)
         THEN [panic |-> FALSE,
               value |-> LET k == CHOOSE k \in 0..Len(string) :
                                    String_len(SubSeq(string, 1, k)) = new_len
                         IN  SubSeq(string, 1, k)]
         ELSE [panic |-> TRUE, value |-> string]

\* Vec::truncate(len), len in elements.
Vec_truncate(vec, new_len) ==
    IF new_len >= Len(vec) THEN vec ELSE SubSeq(vec, 1, new_len)

\* The stack without its top entry.
Popped == SubSeq(stack, 1, Len(stack) - 1)

\* The paths of the entries pushed for the children of the node at path, in
\* the order they are pushed.
ChildPaths(path, order) == [i \in 1..Len(order) |-> Append(path, order[i])]

\* The paths of the stack entries without the top one.
PoppedPaths == SubSeq(paths, 1, Len(paths) - 1)

\* Entries that carry the depth of the pushed child's own path.
StringPushes_own_depth(node, order, depth) ==
    [i \in 1..Len(order) |->
        [key |-> order[i], node |-> node.children[order[i]],
         depth |-> depth + 1]]

\* The entries StringTrieIter pushes for the children of node, in one
\* iteration order of the children map.
StringPushes(node, order, depth) ==
    [i \in 1..Len(order) |->
        [key |-> order[i], node |-> node.children[order[i]], depth |-> depth]]

\* StringTrieIter::new
StringIterNew ==
    /\ iter_kind = "none"
    /\ \E order \in Orders(DOMAIN root.children) :
        /\ stack' = StringPushes(root, order, 0)
        /\ paths' = ChildPaths(<<>>, order)
    /\ iter_kind' = "string"
    /\ buffer' = <<>>
    /\ spare' = <<>>
    /\ yielded' = <<>>
    /\ last' = "idle"
    /\ pops' = 0
    /\ UNCHANGED <<parked, mixed, trieVars, serdeVars>>

\* StringTrieIter::next, one pass of its while loop: the pop, the truncate
\* and push on the buffer, then either the return of a copy of the buffer or
\* the push of the children.
StringIterPop ==
    /\ iter_kind = "string"
    /\ last # "panic"
    /\ stack # <<>>
    /\ LET top == stack[Len(stack)]
           truncated == String_truncate(buffer, top.depth)
           pushed == Append(truncated.value, top.key)
       IN  /\ pops' = pops + 1
           /\ IF truncated.panic
              THEN /\ last' = "panic"
                   /\ stack' = Popped
                   /\ paths' = PoppedPaths
                   /\ UNCHANGED <<buffer, yielded>>
              ELSE /\ buffer' = pushed
                   /\ IF top.node.end_of_value
                      THEN /\ yielded' = Append(yielded,
                                [keys |-> pushed, owned |-> TRUE])
                           /\ stack' = Popped
                           /\ paths' = PoppedPaths
                           /\ last' = "yield"
                      ELSE /\ \E order \in Orders(DOMAIN top.node.children) :
                                /\ stack' = Popped \o
                                    StringPushes(top.node, order, top.depth + 1)
                                /\ paths' = PoppedPaths \o
                                    ChildPaths(paths[Len(paths)], order)
                           /\ last' = "loop"
                           /\ UNCHANGED yielded
    /\ UNCHANGED <<iter_kind, spare, parked, mixed, trieVars, serdeVars>>

\* TrieIter::new
GenericIterNew ==
    /\ iter_kind = "none"
    /\ iter_kind' = "generic"
    /\ stack' = <<[node |-> root, depth |-> 0]>>
    /\ paths' = <<(<<>>)>>
    /\ buffer' = <<>>
    /\ spare' = <<>>
    /\ yielded' = <<>>
    /\ last' = "idle"
    /\ pops' = 0
    /\ UNCHANGED <<parked, mixed, trieVars, serdeVars>>

\* The children TrieIter::next visits in its for loop, given the iteration
\* order of the children map: up to and including the first child that ends
\* a value, where the function returns.
Visited(node, order) ==
    LET ends == {i \in 1..Len(order) : node.children[order[i]].end_of_value}
    IN  IF ends = {}
        THEN order
        ELSE SubSeq(order, 1, CHOOSE i \in ends : \A j \in ends : i <= j)

\* TrieIter::next, one pass of its while loop.  The slice returned borrows
\* the buffer: the item records the keys the buffer refers to at the return
\* and is not owned.
GenericIterPop ==
    /\ iter_kind = "generic"
    /\ stack # <<>>
    /\ LET top == stack[Len(stack)]
           truncated == Vec_truncate(buffer, top.depth)
           memory == buffer \o spare
       IN  \E order \in Orders(DOMAIN top.node.children) :
             LET visited == Visited(top.node, order)
                 pushed == truncated \o visited
                 returns == visited # <<>> /\
                     top.node.children[visited[Len(visited)]].end_of_value
             IN  /\ stack' = Popped \o
                        [i \in 1..Len(visited) |->
                            [node |-> top.node.children[visited[i]],
                             depth |-> top.depth + 1]]
                 /\ paths' = PoppedPaths \o
                        ChildPaths(paths[Len(paths)], visited)
                 /\ buffer' = pushed
                 /\ spare' = SubSeq(memory, Len(pushed) + 1, Len(memory))
                 /\ yielded' = IF returns
                               THEN Append(yielded,
                                        [keys |-> pushed, owned |-> FALSE])
                               ELSE yielded
                 /\ last' = IF returns THEN "yield" ELSE "loop"
    /\ pops' = pops + 1
    /\ UNCHANGED <<iter_kind, parked, mixed, trieVars, serdeVars>>

\* next() of either enumerator finding the stack empty: None is returned.
IterEnd ==
    /\ iter_kind # "none"
    /\ last # "panic"
    /\ stack = <<>>
    /\ last' = "end"
    /\ UNCHANGED <<iter_kind, stack, buffer, spare, yielded, pops, paths,
                   parked, mixed, trieVars, serdeVars>>

\* What a caller reads now through an item returned earlier: its own copy,
\* or the elements of the buffer's allocation the borrowed slice covers.
Contents(item) ==
    IF item.owned
    THEN item.keys
    ELSE SubSeq(buffer \o spare, 1, Len(item.keys))

\* A trie that is about to be enumerated or serialized.
InitIter == InitTrie /\ IterIdle /\ SerdeIdle

\* Either enumerator over a trie.
NextIter ==
    StringIterNew \/ StringIterPop \/ GenericIterNew \/ GenericIterPop
        \/ IterEnd

SpecIter == InitIter /\ [][NextIter]_vars

\* next() is called again as long as it can return something new.
SpecIterFair == SpecIter /\ WF_vars(NextIter)

----------------------------------------------------------------------------
(* Readers: calls through a shared reference, and two enumerators at once *)

\* What a read-only call records: its name, argument and result.  It takes
\* &self and assigns nothing of the trie.
Returned(name, value, result) ==
    /\ op' = name
    /\ arg' = value
    /\ ret' = result
    /\ prevRet' = <<>>
    /\ preRoot' = root
    /\ preCount' = count
    /\ UNCHANGED <<root, count, members>>

\* Trie::contains called on the trie
CallContains(value) ==
    /\ Returned("contains", value, contains(value))
    /\ UNCHANGED <<iterVars, serdeVars>>

\* Trie::len called on the trie
CallLen ==
    /\ Returned("len", <<>>, len)
    /\ UNCHANGED <<iterVars, serdeVars>>

\* Trie::is_empty called on the trie
CallIsEmpty ==
    /\ Returned("is_empty", <<>>, Trie_is_empty)
    /\ UNCHANGED <<iterVars, serdeVars>>

\* A lookup that inserts the child it does not find.
CallGet_or_create(value) ==
    /\ op' = "get"
    /\ arg' = <<value>>
    /\ ret' = <<get_or_create(root, value).children[value]>>
    /\ prevRet' = <<>>
    /\ preRoot' = root
    /\ preCount' = count
    /\ root' = get_or_create(root, value)
    /\ UNCHANGED <<count, members, iterVars, serdeVars>>

\* TrieNode::get called on the root: Some(child) as <<child>>, None as <<>>.
CallGet(value) ==
    /\ Returned("get", <<value>>,
            IF value \in DOMAIN root.children
            THEN <<root.children[value]>>
            ELSE <<>>)
    /\ UNCHANGED <<iterVars, serdeVars>>

\* The enumerator whose next() is being called, as one value.
Running ==
    [iter_kind |-> iter_kind, stack |-> stack, buffer |-> buffer,
     spare |-> spare, yielded |-> yielded, last |-> last, pops |-> pops,
     paths |-> paths]

\* Two enumerators that use one buffer: turning to the other one leaves the
\* buffer where it is.
Switch_shared_buffer ==
    /\ iter_kind # "none" \/ parked.iter_kind # "none"
    /\ parked' = Running
    /\ iter_kind' = parked.iter_kind
    /\ stack' = parked.stack
    /\ buffer' = buffer
    /\ spare' = parked.spare
    /\ yielded' = parked.yielded
    /\ last' = parked.last
    /\ pops' = parked.pops
    /\ paths' = parked.paths
    /\ mixed' = (mixed \/ (iter_kind # "none" /\ last \notin {"end", "panic"}))
    /\ UNCHANGED <<trieVars, serdeVars>>

\* The caller turns to the other enumerator: each enumerator owns its stack
\* and its buffer and borrows the trie, so the two exchange places whole.  An
\* enumerator that was never created is created by the next call of iter().
Switch ==
    /\ iter_kind # "none" \/ parked.iter_kind # "none"
    /\ parked' = Running
    /\ iter_kind' = parked.iter_kind
    /\ stack' = parked.stack
    /\ buffer' = parked.buffer
    /\ spare' = parked.spare
    /\ yielded' = parked.yielded
    /\ last' = parked.last
    /\ pops' = parked.pops
    /\ paths' = parked.paths
    /\ mixed' = (mixed \/ (iter_kind # "none" /\ last \notin {"end", "panic"}))
    /\ UNCHANGED <<trieVars, serdeVars>>

CallContainsAny == \E value \in Strings : CallContains(value)

CallGetAny == \E value \in Chars : CallGet(value)

\* Read-only calls and the steps of two enumerators, in any order.
NextRead ==
    CallContainsAny \/ CallLen \/ CallIsEmpty \/ CallGetAny \/ Switch
        \/ StringIterNew \/ StringIterPop \/ GenericIterNew
        \/ GenericIterPop \/ IterEnd

SpecRead == InitIter /\ [][NextRead]_vars

----------------------------------------------------------------------------
(* Serialize and Deserialize, src/trie.rs and src/node.rs *)

\* A struct is encoded as the sequence of its fields, each a key and a value;
\* a HashMap as a function from its keys to the encoded values.
Field(key, value) == [key |-> key, value |-> value]

\* Result::Ok and Result::Err of a decode.
Ok(value) == [ok |-> TRUE, value |-> value, error |-> "none"]
Err(error) == [ok |-> FALSE, value |-> <<>>, error |-> error]

\* Serialize for TrieNode with the end_of_value field left out.
RECURSIVE serialize_node_no_flag(_)
serialize_node_no_flag(node) ==
    <<Field("children",
            [s \in DOMAIN node.children |->
                serialize_node_no_flag(node.children[s])])>>

\* Serialize for TrieNode
RECURSIVE serialize_node(_)
serialize_node(node) ==
    <<Field("children",
            [s \in DOMAIN node.children |-> serialize_node(node.children[s])]),
      Field("end_of_value", node.end_of_value)>>

\* Serialize for Trie
serialize_trie(trie_root, trie_count) ==
    <<Field("root", serialize_node(trie_root)), Field("count", trie_count)>>

\* Deserialize for TrieNode: TrieNodeVisitor::visit_map over the fields still
\* to be read, children and end_of_value being the Options filled so far
\* (<<>> is None, <<v>> is Some(v)); the children map is decoded value by
\* value and the first error ends the decode.
RECURSIVE node_visit_map(_, _, _), deserialize_node(_), deserialize_children(_)
node_visit_map(map, children, end_of_value) ==
    IF map = <<>>
    THEN Ok([children |-> IF children = <<>> THEN NoChildren ELSE children[1],
             end_of_value |-> IF end_of_value = <<>> THEN FALSE
                              ELSE end_of_value[1]])
    ELSE LET key == Head(map).key
             value == Head(map).value
         IN  CASE key = "children" ->
                    IF children # <<>>
                    THEN Err("duplicate_field")
                    ELSE LET next_value == deserialize_children(value)
                         IN  IF next_value.ok
                             THEN node_visit_map(Tail(map),
                                      <<next_value.value>>, end_of_value)
                             ELSE next_value
               [] key = "end_of_value" ->
                    IF end_of_value # <<>>
                    THEN Err("duplicate_field")
                    ELSE node_visit_map(Tail(map), children, <<value>>)
               [] OTHER -> Err("unknown_field")

deserialize_node(fields) == node_visit_map(fields, <<>>, <<>>)

deserialize_children(object) ==
    IF \A s \in DOMAIN object : deserialize_node(object[s]).ok
    THEN Ok([s \in DOMAIN object |-> deserialize_node(object[s]).value])
    ELSE Err((CHOOSE r \in {deserialize_node(object[s]) : s \in DOMAIN object} :
                ~r.ok).error)

\* TrieVisitor::visit_map skipping the fields it does not know.
RECURSIVE trie_visit_map_lenient(_, _, _)
trie_visit_map_lenient(map, trie_root, trie_count) ==
    IF map = <<>>
    THEN IF trie_root = <<>> \/ trie_count = <<>>
         THEN Err("missing_field")
         ELSE Ok([root |-> trie_root[1], count |-> trie_count[1]])
    ELSE LET key == Head(map).key
             value == Head(map).value
         IN  CASE key = "root" ->
                    IF trie_root # <<>>
                    THEN Err("duplicate_field")
                    ELSE LET next_value == deserialize_node(value)
                         IN  IF next_value.ok
                             THEN trie_visit_map_lenient(Tail(map),
                                      <<next_value.value>>, trie_count)
                             ELSE next_value
               [] key = "count" ->
                    IF trie_count # <<>>
                    THEN Err("duplicate_field")
                    ELSE trie_visit_map_lenient(Tail(map), trie_root, <<value>>)
               [] OTHER -> trie_visit_map_lenient(Tail(map), trie_root, trie_count)

\* Deserialize for Trie: TrieVisitor::visit_map over the fields still to be
\* read, trie_root and trie_count being the Options filled so far.
RECURSIVE trie_visit_map(_, _, _)
trie_visit_map(map, trie_root, trie_count) ==
    IF map = <<>>
    THEN IF trie_root = <<>> \/ trie_count = <<>>
         THEN Err("missing_field")
         ELSE Ok([root |-> trie_root[1], count |-> trie_count[1]])
    ELSE LET key == Head(map).key
             value == Head(map).value
         IN  CASE key = "root" ->
                    IF trie_root # <<>>
                    THEN Err("duplicate_field")
                    ELSE LET next_value == deserialize_node(value)
                         IN  IF next_value.ok
                             THEN trie_visit_map(Tail(map),
                                      <<next_value.value>>, trie_count)
                             ELSE next_value
               [] key = "count" ->
                    IF trie_count # <<>>
                    THEN Err("duplicate_field")
                    ELSE trie_visit_map(Tail(map), trie_root, <<value>>)
               [] OTHER -> Err("unknown_field")

deserialize_trie(fields) == trie_visit_map(fields, <<>>, <<>>)

\* The names of the fields of a serialized Trie.
FIELDS == {"root", "count"}

\* The fields an object handed to the decoder is made of: the encoding of the
\* root, the count, a count that is one too large, and a field that Trie does
\* not have.
InputFields ==
    {Field("root", serialize_node(root)), Field("count", count),
     Field("count", count + 1), Field("extra", 0)}

\* The objects handed to the decoder: up to one field more than Trie has.
WireInputs ==
    UNION {[1..n -> InputFields] : n \in 0..(Cardinality(FIELDS) + 1)}

\* The container is serialized.
Serialize ==
    /\ serde_pc = "idle"
    /\ wire' = serialize_trie(root, count)
    /\ serde_pc' = "encoded"
    /\ UNCHANGED <<decoded, trieVars, iterVars>>

\* The serialized container is deserialized.
DeserializeEncoded ==
    /\ serde_pc = "encoded"
    /\ decoded' = deserialize_trie(wire)
    /\ serde_pc' = "roundtrip"
    /\ UNCHANGED <<wire, trieVars, iterVars>>

\* An object from elsewhere is deserialized.
DeserializeInput ==
    /\ serde_pc = "idle"
    /\ \E input \in WireInputs :
        /\ wire' = input
        /\ decoded' = deserialize_trie(input)
    /\ serde_pc' = "decoded"
    /\ UNCHANGED <<trieVars, iterVars>>

NextSerde == Serialize \/ DeserializeEncoded \/ DeserializeInput

SpecSerde == InitIter /\ [][NextSerde]_vars

----------------------------------------------------------------------------
(* Measures of the tree used by the properties *)

\* The sequences probed with contains: one symbol longer than any argument.
Probes == UNION {[1..n -> Symbols] : n \in 0..(MaxLen + 1)}

\* Number of nodes below and including node whose end_of_value is set.
RECURSIVE TerminalCount(_), TerminalCountOf(_, _)
TerminalCount(node) ==
    (IF node.end_of_value THEN 1 ELSE 0)
        + TerminalCountOf(node.children, DOMAIN node.children)
TerminalCountOf(map, keys) ==
    IF keys = {}
    THEN 0
    ELSE LET k == CHOOSE s \in keys : TRUE
         IN  TerminalCount(map[k]) + TerminalCountOf(map, keys \ {k})

\* Number of nodes below and including node.
RECURSIVE NodeCount(_), NodeCountOf(_, _)
NodeCount(node) == 1 + NodeCountOf(node.children, DOMAIN node.children)
NodeCountOf(map, keys) ==
    IF keys = {}
    THEN 0
    ELSE LET k == CHOOSE s \in keys : TRUE
         IN  NodeCount(map[k]) + NodeCountOf(map, keys \ {k})

\* No node below node is both without the flag and without children.
RECURSIVE NoDangling(_)
NoDangling(node) ==
    \A s \in DOMAIN node.children :
        /\ ~can_remove(node.children[s])
        /\ NoDangling(node.children[s])

----------------------------------------------------------------------------
(* Properties *)

C4_RemoveNonMember ==
    [][(op' = "remove" /\ arg' \notin members)
        => (ret' = FALSE /\ count' = count)]_vars

\* remove of a non-terminal prefix of a member
C4_Witness ==
    /\ op = "remove" /\ ret = FALSE
    /\ arg = <<"a">>
    /\ contains(<<"a", "b">>)
    /\ ~contains_walk(preRoot, arg)
    /\ len = preCount /\ len > 0

C6_PruningInvariant == NoDangling(root)

\* a remove that detached two nodes
C6_Witness ==
    /\ op = "remove" /\ ret
    /\ Len(arg) = 2
    /\ NodeCount(root) = NodeCount(preRoot) - 2
    /\ ~is_empty(root)

\* C7: after any sequence of insert and remove calls, count equals the number
\* of terminal nodes reachable from the root, the root included.
C7_CountIsTerminals == len = TerminalCount(root)

C7_Witness ==
    /\ op = "remove" /\ ret
    /\ root.end_of_value
    /\ len = 2
    /\ TerminalCount(root) = 2

\* C8: after clear(), len() is 0, is_empty() is true and nothing is contained;
\* count equals the number of terminal nodes after any sequence of insert,
\* remove and clear.
C8_ClearResets ==
    /\ op = "clear" =>
        /\ len = 0
        /\ Trie_is_empty
        /\ \A S \in Probes : ~contains(S)
    /\ len = TerminalCount(root)

\* C9: is_empty() is true exactly when no sequence, the empty one included,
\* is contained.
C9_IsEmptyIffNothingStored ==
    Trie_is_empty <=> (\A S \in Probes : ~contains(S))

\* C10: once every inserted sequence has been removed, is_empty() is true and
\* len() is 0.
C10_AllRemovedIsEmpty ==
    members = {} => (Trie_is_empty /\ len = 0)

\* the only member left is removed and both nodes of its path are detached
C10_Witness ==
    /\ op = "remove" /\ ret
    /\ members = {}
    /\ Len(arg) = 2
    /\ NodeCount(preRoot) = 3
    /\ Trie_is_empty /\ len = 0

C12_InsertEmptyReturnsFalse ==
    (op = "insert" /\ arg = <<>>) => ret = FALSE

\* C20: remove(S) of a non-member leaves the whole tree unchanged, both when
\* a child is missing part-way along S and when the walk ends on a node that
\* is not terminal.
C20_RemoveNonMemberKeepsTree ==
    [][(op' = "remove" /\ arg' \notin members)
        => (ret' = FALSE /\ root' = root)]_vars

\* the child for the second symbol is missing below a non-terminal node, and
\* the closure still ran for the first symbol
C20_Witness ==
    /\ op = "remove" /\ ret = FALSE
    /\ arg = <<"a", "b">>
    /\ "a" \in DOMAIN preRoot.children
    /\ ~preRoot.children["a"].end_of_value
    /\ "b" \notin DOMAIN preRoot.children["a"].children
    /\ root = preRoot
    /\ contains(<<"a", "a">>)

\* the walk ends on a node that is not terminal
C20_WitnessNonTerminalEnd ==
    /\ op = "remove" /\ ret = FALSE
    /\ arg = <<"a">>
    /\ "a" \in DOMAIN preRoot.children
    /\ root = preRoot

\* The sequences returned so far by the enumerator, as they were at the
\* return.
YieldedKeys == {yielded[i].keys : i \in 1..Len(yielded)}

\* C13: a full enumeration with StringTrie::iter yields every stored
\* sequence, members that have another member as a proper prefix included.
C13_StringIterYieldsEveryMember ==
    (iter_kind = "string" /\ last = "end") => members \subseteq YieldedKeys

\* C14: StringTrie::iter yields no extras and no duplicates: every value it
\* yields is a stored member and no value is yielded twice.
C14_StringIterNoExtrasNoDuplicates ==
    iter_kind = "string" =>
        /\ YieldedKeys \subseteq members
        /\ \A i, j \in 1..Len(yielded) :
                yielded[i].keys = yielded[j].keys => i = j

\* a full enumeration that went back from a longer branch to a shorter one
C14_Witness ==
    /\ iter_kind = "string" /\ last = "end"
    /\ yielded = <<[keys |-> <<"a", "b">>, owned |-> TRUE],
                   [keys |-> <<"b">>, owned |-> TRUE]>>
    /\ members = {<<"a", "b">>, <<"b">>}

\* C15: the generic Trie::iter yields only stored members and never the same
\* member twice: every sequence it yields is the path of a terminal node.
C15_GenericIterNoExtrasNoDuplicates ==
    iter_kind = "generic" =>
        /\ YieldedKeys \subseteq members
        /\ \A i, j \in 1..Len(yielded) :
                yielded[i].keys = yielded[j].keys => i = j

\* C18: every sequence yielded is an independent copy: no later step of the
\* enumerator changes what a sequence yielded earlier contains, for the
\* string enumerator and for the generic one.
C18_YieldedItemsAreCopies ==
    \A i \in 1..Len(yielded) : Contents(yielded[i]) = yielded[i].keys

\* C19: enumeration is finite: the calls of next() reach an empty stack and
\* None after at most as many pops as the trie has nodes, and every later
\* call returns None as well.
C19_EnumerationEnds ==
    /\ [](pops <= NodeCount(root))
    /\ [][last = "end" => (last' = "end" /\ yielded' = yielded)]_vars
    /\ (iter_kind # "none") ~> (last = "end" /\ stack = <<>>)

\* The strings probed with contains: one char longer than any stored string.
StringProbes == UNION {[1..n -> Chars] : n \in 0..(MaxLen + 1)}

\* The keys of the fields of an encoded struct, in order.
Keys(fields) == [i \in 1..Len(fields) |-> fields[i].key]

\* C16: serialization round trip: decoding the encoding of a container gives
\* a container with the same len() and the same contains(S) for every S.
C16_RoundTrip ==
    serde_pc = "roundtrip" =>
        /\ decoded.ok
        /\ decoded.value.count = len
        /\ \A S \in StringProbes :
                contains_walk(decoded.value.root, S) <=> contains(S)

\* a container with a stored prefix, a multi-byte char and the empty string
C16_Witness ==
    /\ serde_pc = "roundtrip"
    /\ decoded.ok
    /\ members = {<<>>, <<"a", "é">>}
    /\ decoded.value.count = 2
    /\ contains_walk(decoded.value.root, <<"a", "é">>)
    /\ ~contains_walk(decoded.value.root, <<"a">>)

\* C17: decoding a container object fails when root or count is missing or
\* duplicated or when an unknown field is present; it succeeds when exactly
\* root and count are given, and then takes the count as given without
\* comparing it with the number of terminal nodes.
C17_DecodeChecksFieldsOnly ==
    serde_pc = "decoded" =>
        /\ decoded.ok <=>
                (Len(wire) = 2 /\ {wire[1].key, wire[2].key} = FIELDS)
        /\ decoded.ok =>
                \A i \in 1..Len(wire) :
                    /\ wire[i].key = "count" => decoded.value.count = wire[i].value
                    /\ wire[i].key = "root" =>
                        decoded.value.root = deserialize_node(wire[i].value).value

\* a decode that succeeds with a count the tree does not have
C17_Witness ==
    /\ serde_pc = "decoded"
    /\ decoded.ok
    /\ Keys(wire) = <<"count", "root">>
    /\ decoded.value.count = 3
    /\ TerminalCount(decoded.value.root) = 2

\* a decode that fails on a duplicated field after both fields were read
C17_WitnessDuplicate ==
    /\ serde_pc = "decoded"
    /\ Keys(wire) = <<"root", "count", "root">>
    /\ decoded.error = "duplicate_field"

\* a decode that fails on a missing field
C17_WitnessMissing ==
    /\ serde_pc = "decoded"
    /\ Keys(wire) = <<"root">>
    /\ decoded.error = "missing_field"

\* a decode that fails on an unknown field
C17_WitnessUnknown ==
    /\ serde_pc = "decoded"
    /\ Keys(wire) = <<"root", "count", "extra">>
    /\ decoded.error = "unknown_field"

\* The sequences the parked enumerator has returned so far.
ParkedKeys == {parked.yielded[i].keys : i \in 1..Len(parked.yielded)}

\* Both enumerators are string enumerators whose next() has returned None.
BothEnded ==
    /\ iter_kind = "string" /\ last = "end"
    /\ parked.iter_kind = "string" /\ parked.last = "end"

\* C21: read-only operations have no effect on the container: contains, len,
\* is_empty, TrieNode::get and every step of an enumerator leave the tree of
\* nodes and count as they were; and an enumeration started again once the
\* first one has ended yields the same set of values.
C21_ReadsChangeNothing ==
    /\ [][root' = root /\ count' = count]_vars
    /\ []((BothEnded /\ ~mixed) => YieldedKeys = ParkedKeys)

\* a lookup of a symbol the root has no child for was the last call, after
\* an enumeration that was started again when the first one had ended and
\* yielded two values both times
C21_Witness ==
    /\ op = "get" /\ ret = <<>>
    /\ BothEnded /\ ~mixed
    /\ Cardinality(ParkedKeys) = 2
    /\ Len(yielded) = 2

\* C22: on every enumerator step that pops a node, every child of the popped
\* node is pushed onto the stack with the popped entry's depth + 1, whether
\* or not the popped node is terminal and a value is returned at that step.
C22_ChildrenAlwaysPushed ==
    [][(pops' = pops + 1 /\ last' # "panic") =>
        LET top == stack[Len(stack)] IN
        \A key \in DOMAIN top.node.children :
            \E i \in Len(stack)..Len(stack') :
                /\ stack'[i].node = top.node.children[key]
                /\ stack'[i].depth = top.depth + 1
                /\ paths'[i] = Append(paths[Len(paths)], key)]_vars

\* The members spelled with one-byte chars only.
SingleByte == \A m \in members : \A i \in 1..Len(m) : len_utf8(m[i]) = 1

\* C23: buffer invariant of the string enumerator on tries of one-byte
\* symbols: right after an entry is popped, the buffer truncated to its
\* depth and its symbol appended, the buffer is exactly the path of symbols
\* from the root to the popped node.
C23_BufferIsPathOfPopped ==
    [][(iter_kind = "string" /\ pops' = pops + 1 /\ SingleByte) =>
        /\ last' # "panic"
        /\ buffer' = paths[Len(paths)]]_vars

\* after "ab" was returned the root's child for "b" was popped: the buffer
\* was cut back from the longer branch explored before
C23_Witness ==
    /\ iter_kind = "string" /\ SingleByte
    /\ members = {<<"a", "b">>, <<"b">>}
    /\ Len(yielded) = 2
    /\ yielded[1].keys = <<"a", "b">>
    /\ buffer = <<"b">>

\* C24: StringTrie::iter recomposes the stored text exactly for any chars,
\* those encoded in more than one byte included, wherever they stand in a
\* string: next() never fails and every string it returns is a member.
C24_MultiByteEnumerates ==
    iter_kind = "string" =>
        /\ last # "panic"
        /\ YieldedKeys \subseteq members

\* C25: when the empty sequence is stored, a full enumeration yields it
\* exactly once, and the number of values yielded by a full enumeration is
\* len().
C25_EmptySequenceYieldedOnce ==
    (iter_kind # "none" /\ last = "end" /\ <<>> \in members) =>
        /\ Cardinality({i \in 1..Len(yielded) : yielded[i].keys = <<>>}) = 1
        /\ Len(yielded) = len

\* The running enumerator took steps in between steps of the parked one.
Interleaved == mixed /\ iter_kind # "none" /\ parked.iter_kind # "none"

\* C26: with no mutation in between, interleaving the steps of two
\* enumerators and contains checks changes nothing for any of them: a step
\* of one enumerator or a check leaves the other enumerator as it was, every
\* check returns what it returns alone, the membership of its argument, and
\* two string enumerations that reached None yielded the same set of values,
\* however their steps were interleaved.
C26_InterleavedReadersAgree ==
    /\ [][(parked' = parked) \/ (parked' = Running)]_vars
    /\ [](op = "contains" => ret = (arg \in members))
    /\ [](BothEnded => YieldedKeys = ParkedKeys)

\* two string enumerations whose steps were interleaved have both reached
\* None after yielding two values each, and a contains check found a member
C26_Witness ==
    /\ Interleaved /\ BothEnded
    /\ Len(yielded) = 2 /\ Len(parked.yielded) = 2
    /\ op = "contains" /\ ret = TRUE

\* Both enumerators are string enumerators that have come to their end, be
\* it by returning None or in a panic.
BothStopped ==
    /\ iter_kind = "string" /\ last \in {"end", "panic"}
    /\ parked.iter_kind = "string" /\ parked.last \in {"end", "panic"}

RECURSIVE NodeAt(_, _)
NodeAt(node, path) ==
    IF path = <<>>
    THEN <<node>>
    ELSE IF Head(path) \in DOMAIN node.children
         THEN NodeAt(node.children[Head(path)], Tail(path))
         ELSE <<>>

\* path is a prefix of value.
IsPrefix(path, value) ==
    Len(path) <= Len(value) /\ SubSeq(value, 1, Len(path)) = path

C28_CountNeverUnderflows ==
    /\ count >= 0
    /\ (op = "remove" /\ ret = TRUE) => preCount >= 1

\* a remove succeeded on a trie whose count was left above the number of
\* stored values by an earlier clear
C28_Witness ==
    /\ op = "remove" /\ ret = TRUE
    /\ preCount > TerminalCount(preRoot)
    /\ count >= 1

\* Entry i of the string enumerator's stack is the child reached by its
\* path, paired with the path's last symbol.
EntryIsChild(i) ==
    /\ paths[i] # <<>>
    /\ stack[i].key = paths[i][Len(paths[i])]
    /\ NodeAt(root, paths[i]) = <<stack[i].node>>

\* C30, as stated: the entries for the root's children carry depth 1 and
\* every entry's depth is the number of symbols on the path from the root to
\* its node.
C30_DepthIsPathLength ==
    iter_kind = "string" =>
        \A i \in 1..Len(stack) :
            EntryIsChild(i) /\ stack[i].depth = Len(paths[i])

\* C30, amended: the entries for the root's children carry depth 0 and every
\* entry pushed later its parent's depth + 1, so an entry's depth is the
\* number of symbols on the path from the root to its node minus one, the
\* length of its parent's path.
C30_DepthIsParentPathLength ==
    iter_kind = "string" =>
        \A i \in 1..Len(stack) :
            EntryIsChild(i) /\ stack[i].depth = Len(paths[i]) - 1

\* the stack holds an entry for a root's child and, above it, one for a
\* grandchild pushed by next()
C30_Witness ==
    /\ iter_kind = "string"
    /\ Len(stack) = 2
    /\ stack[1].depth = 0 /\ Len(paths[1]) = 1
    /\ stack[2].depth = 1 /\ Len(paths[2]) = 2

====
